---------------------------- MODULE Spec2Model ----------------------------
(***************************************************************************)
(* A model of ncov/parser/qc.py: the parsers of the per-sample QC files    *)
(* (variants table, QC line, coverage table, metadata table), the          *)
(* assembly of one summary record and the collection of summary files.     *)
(*                                                                         *)
(* Text is modelled as it is in the program: a string is a sequence of     *)
(* one-character strings, a file is a sequence of lines, each line ending  *)
(* with its newline as Python's file iteration delivers it.  The lines of  *)
(* a file are supplied by the environment one at a time, as the loop       *)
(* `for line in file_p` reads them; `lines` records what has been read     *)
(* from the file that is open.                                             *)
(***************************************************************************)
EXTENDS Integers, Sequences, FiniteSets, TLC

\* ------------------------------------------------------------------ bounds
\* The most lines the environment supplies for the file of one parser call.
MaxLines == 4

\* The most lines it supplies for each file of create_qc_summary_line.
MaxSummaryLines == 2

\* The most lines the files of collect_qc_summary_data hold together, and
\* the most files glob returns: one for every three of those lines.
MaxCollectLines == 6

MaxFiles == MaxCollectLines \div 3

\* ------------------------------------------------------- string primitives
TAB == "\t"

NL == "\n"

COMMA == ","

\* The characters str.strip() and str.rstrip() remove when called without
\* an argument, of the characters a TLA+ string can hold.
Whitespace == {" ", "\t", "\n", "\r", "\f"}

LowerChars == <<"a", "b", "c", "d", "e", "f", "g", "h", "i", "j", "k", "l",
    "m", "n", "o", "p", "q", "r", "s", "t", "u", "v", "w", "x", "y", "z">>

UpperChars == <<"A", "B", "C", "D", "E", "F", "G", "H", "I", "J", "K", "L",
    "M", "N", "O", "P", "Q", "R", "S", "T", "U", "V", "W", "X", "Y", "Z">>

Digits == <<"0", "1", "2", "3", "4", "5", "6", "7", "8", "9">>

IndexIn(ch, seq) == CHOOSE i \in 1..Len(seq) : seq[i] = ch

IsIn(ch, seq) == \E i \in 1..Len(seq) : seq[i] = ch

UpperChar(ch) ==
  IF IsIn(ch, LowerChars) THEN UpperChars[IndexIn(ch, LowerChars)] ELSE ch

LowerChar(ch) ==
  IF IsIn(ch, UpperChars) THEN LowerChars[IndexIn(ch, UpperChars)] ELSE ch

\* str.upper() and str.lower().
Upper(s) == [i \in 1..Len(s) |-> UpperChar(s[i])]

Lower(s) == [i \in 1..Len(s) |-> LowerChar(s[i])]

\* re.match("^<literal>", s): s begins with the literal.
StartsWith(s, prefix) ==
  /\ Len(s) >= Len(prefix)
  /\ \A i \in 1..Len(prefix) : s[i] = prefix[i]

\* re.search("[<chars>]", s): some character of s is in the class.
SearchClass(s, chars) == \E i \in 1..Len(s) : s[i] \in chars

\* str.rstrip(): s without its trailing whitespace.
RECURSIVE RStrip(_)
RStrip(s) ==
  IF s # <<>> /\ s[Len(s)] \in Whitespace
  THEN RStrip(SubSeq(s, 1, Len(s) - 1))
  ELSE s

RECURSIVE LStrip(_)
LStrip(s) ==
  IF s # <<>> /\ s[1] \in Whitespace THEN LStrip(Tail(s)) ELSE s

\* str.strip(): s without its leading and trailing whitespace.
Strip(s) == LStrip(RStrip(s))

\* str.split(sep) with an explicit one-character separator: the fields
\* between the separators, always at least one field.
RECURSIVE SplitFrom(_, _, _, _)
SplitFrom(s, sep, i, field) ==
  IF i > Len(s) THEN <<field>>
  ELSE IF s[i] = sep THEN <<field>> \o SplitFrom(s, sep, i + 1, <<>>)
  ELSE SplitFrom(s, sep, i + 1, Append(field, s[i]))

Split(s, sep) == SplitFrom(s, sep, 1, <<>>)

\* int(s) accepts an optional sign followed by decimal digits (the
\* surrounding whitespace and the underscores it also accepts do not occur
\* in the lines modelled here); anything else is a ValueError.
IntBody(s) == IF s # <<>> /\ s[1] \in {"+", "-"} THEN Tail(s) ELSE s

IsInt(s) ==
  /\ IntBody(s) # <<>>
  /\ \A i \in 1..Len(IntBody(s)) : IsIn(IntBody(s)[i], Digits)

RECURSIVE DigitsValue(_)
DigitsValue(s) ==
  IF s = <<>> THEN 0
  ELSE 10 * DigitsValue(SubSeq(s, 1, Len(s) - 1))
         + (IndexIn(s[Len(s)], Digits) - 1)

IntOf(s) ==
  IF s[1] = "-" THEN 0 - DigitsValue(IntBody(s)) ELSE DigitsValue(IntBody(s))

\* ------------------------------------------------------------- dictionaries
\* A dict is a function from its keys; {} is the function with no keys.
EmptyDict == <<>>

\* d.update(e)
Update(d, e) ==
  [k \in DOMAIN d \cup DOMAIN e |-> IF k \in DOMAIN e THEN e[k] ELSE d[k]]

\* d[key] = value
SetItem(d, key, value) ==
  [k \in DOMAIN d \cup {key} |-> IF k = key THEN value ELSE d[k]]

\* ------------------------------------------------------------ input lines
\* sep.join(fields) followed by the newline: one line of an input file.
RECURSIVE Join(_, _)
Join(fields, sep) ==
  IF fields = <<>> THEN <<>>
  ELSE IF Len(fields) = 1 THEN fields[1]
  ELSE fields[1] \o <<sep>> \o Join(Tail(fields), sep)

Line(fields, sep) == Join(fields, sep) \o <<NL>>

\* <sample>.variants.tsv: the header, rows with an ALT of every kind, a row
\* whose last column is ALT, and a row that has no ALT column.
VarHeader == <<"R", "E", "G", "I", "O", "N", "\t", "P", "O", "S", "\t", "R",
    "E", "F", "\t", "A", "L", "T", "\t", "R", "E", "F", "_", "D", "P",
    "\n">>

AltValues == { <<>>, <<"A">>, <<"N">>, <<"r">>, <<"A", "T">>, <<"R", "n">> }

VarRow(alt) == Line(<< <<"M", "N">>, <<"2", "4", "1">>, <<"C">>, alt,
    <<"7">> >>, TAB)

VarRowAltLast == <<"M", "N", "\t", "2", "4", "1", "\t", "C", "\t", "A", "\n">>

VarRowShort == <<"M", "N", "\t", "2", "4", "1", "\t", "C", "\n">>

VariantLines ==
  {VarHeader, VarRowAltLast, VarRowShort}
    \cup { VarRow(alt) : alt \in AltValues }

SummaryVariantLines == {VarHeader, VarRowShort, VarRow(<<"A">>),
    VarRow(<<"R", "n">>)}

\* <sample>.qc.csv: the header, two samples, a sample whose name begins as
\* the header does, a line with too few fields and an empty line.
QcHeader ==
  <<"s", "a", "m", "p", "l", "e", "_", "n", "a", "m", "e", ",", "p", "c",
      "t", "_", "N", "_", "b", "a", "s", "e", "s", ",", "p", "c", "t", "_",
      "c", "o", "v", "e", "r", "e", "d", "_", "b", "a", "s", "e", "s", ",",
      "l", "o", "n", "g", "e", "s", "t", "_", "n", "o", "_", "N", "_", "r",
      "u", "n", ",", "f", "a", "s", "t", "a", ",", "b", "a", "m", ",", "q",
      "c", "_", "p", "a", "s", "s", "\n">>

QcRowS1 == <<"S", "1", ",", "1", ",", "9", ",", "3", ",", "f", ",", "b", ",",
    "T", "\n">>

QcRowS2 == <<" ", "S", "2", ",", "2", ",", "8", ",", "3", ",", "f", ",", "b",
    ",", "\n">>

QcRowNamedAsHeader == <<"s", "a", "m", "p", "l", "e", "_", "n", "a", "m",
    "e", "2", ",", "2", ",", "8", ",", "3", ",", "f", ",", "b", ",", "T",
    "\n">>

QcRowShort == <<"S", "1", ",", "1", ",", "9", ",", "3", ",", "f", ",", "b",
    "\n">>

QcLines ==
  {QcHeader, QcRowS1, QcRowS2, QcRowNamedAsHeader, QcRowShort, <<NL>>}

SummaryQcLines == {QcHeader, QcRowS1, QcRowS2, QcRowShort}

\* <sample>.per_base_coverage.bed: the header, rows of three depths, a row
\* whose depth is no integer, a row with too few columns and an empty line.
CovHeader ==
  <<"r", "e", "f", "e", "r", "e", "n", "c", "e", "_", "n", "a", "m", "e",
      "\t", "s", "t", "a", "r", "t", "\t", "e", "n", "d", "\t", "a", "m",
      "p", "l", "i", "c", "o", "n", "_", "i", "d", "\t", "p", "o", "o", "l",
      "\t", "s", "t", "r", "a", "n", "d", "\t", "p", "o", "s", "i", "t", "i",
      "o", "n", "\t", "d", "e", "p", "t", "h", "\n">>

CovRow(d) ==
  Line(<< <<"M", "N">>, <<"0">>, <<"9">>, <<"a">>, <<"1">>, <<"+">>, <<"5">>,
      d >>, TAB)

CovRowShort == <<"M", "N", "\t", "0", "\t", "9", "\t", "a", "\t", "1", "\t",
    "+", "\t", "5", "\n">>

CoverageLines ==
  {CovHeader, CovRow(<<"1">>), CovRow(<<"4">>), CovRow(<<"1", "2">>),
      CovRow(<<"x">>),
   CovRowShort, <<NL>>}

SummaryCoverageLines == {CovHeader, CovRow(<<"1">>), CovRow(<<"4">>),
    CovRow(<<"x">>)}

\* metadata.tsv: the header in two letter cases, samples (one twice, with
\* different ct), a line with one column and an empty line.
MetaHeader == <<"s", "a", "m", "p", "l", "e", "\t", "c", "t", "\n">>

MetaHeaderUpper == <<"S", "a", "m", "p", "l", "e", "\t", "C", "T", "\t", "d",
    "a", "t", "e", "\n">>

MetaRow(s, ct) == Line(<<s, ct>>, TAB)

MetaRowShort == <<"S", "1", "\n">>

MetaLines ==
  {MetaHeader, MetaHeaderUpper, MetaRow(<<"S", "1">>, <<"2", "0">>),
      MetaRow(<<"S", "1">>, <<"3", "0">>),
   MetaRow(<<"S", "2">>, <<"2", "5">>), MetaRowShort, <<NL>>}

SummaryMetaLines ==
  {MetaHeader, MetaRow(<<"S", "1">>, <<"2", "0">>), MetaRow(<<"S", "3">>,
      <<"3", "0">>), MetaRowShort}

\* <sample>.summary.qc.tsv: the header write_qc_summary_header prints, a
\* header with the same first three columns and other columns after them,
\* and two records, one ending in empty columns.
SummaryHeader ==
  <<"s", "a", "m", "p", "l", "e", "_", "n", "a", "m", "e", "\t", "p", "c",
      "t", "_", "n", "_", "b", "a", "s", "e", "s", "\t", "p", "c", "t", "_",
      "c", "o", "v", "e", "r", "e", "d", "_", "b", "a", "s", "e", "s", "\t",
      "t", "o", "t", "a", "l", "_", "v", "a", "r", "i", "a", "n", "t", "s",
      "\t", "t", "o", "t", "a", "l", "_", "s", "n", "v", "\t", "t", "o", "t",
      "a", "l", "_", "i", "n", "d", "e", "l", "\t", "t", "o", "t", "a", "l",
      "_", "n", "\t", "t", "o", "t", "a", "l", "_", "i", "u", "p", "a", "c",
      "\t", "m", "e", "a", "n", "_", "d", "e", "p", "t", "h", "\t", "m", "e",
      "d", "i", "a", "n", "_", "d", "e", "p", "t", "h", "\t", "c", "t", "\t",
      "q", "c", "_", "p", "a", "s", "s", "\n">>

SummaryHeaderOther ==
  <<"s", "a", "m", "p", "l", "e", "_", "n", "a", "m", "e", "\t", "p", "c",
      "t", "_", "n", "_", "b", "a", "s", "e", "s", "\t", "p", "c", "t", "_",
      "c", "o", "v", "e", "r", "e", "d", "_", "b", "a", "s", "e", "s", "\t",
      "n", "u", "m", "_", "v", "a", "r", "i", "a", "n", "t", "s", "\n">>

SummaryRowS1 == <<"S", "1", "\t", "1", "\t", "9", "\n">>

SummaryRowS2 == <<"S", "2", "\t", "2", "\t", "\t", "\n">>

SummaryFileLines ==
  {SummaryHeader, SummaryHeaderOther, SummaryRowS1, SummaryRowS2}

\* ------------------------------------------------------------------- state
VARIABLES
  call,          \* the function the caller invoked
  indel,         \* the indel argument
  pc,            \* the position of the running function
  lines,         \* the lines read so far from the file that was opened last
  open_handles,  \* the file handles that are open
  counters,      \* get_total_variants: counter, counter_n, counter_iupac,
                 \*   counter_snv, counter_indel
  qc_data,       \* get_qc_data: data, <<>> while the name is unbound
  depth,         \* get_coverage_stats: depth
  ct_data,       \* import_ct_data: data
  summary,       \* create_qc_summary_line: summary
  files_done,    \* collect_qc_summary_data: the files read to their end
  collected,     \* collect_qc_summary_data: data
  returned       \* what the call gave its caller: nothing yet, a value, or
                 \*   an exception

vars ==
  <<call, indel, pc, lines, open_handles, counters, qc_data, depth, ct_data,
    summary, files_done, collected, returned>>

locals == <<counters, qc_data, depth, ct_data, files_done, collected>>

SUMMARY == "create_qc_summary_line"

NotReturned == [kind |-> "running"]

Return(v) == [kind |-> "return", value |-> v]

Raise(exc) == [kind |-> "raise", exc |-> exc]

Handle(name, n) == [file |-> name, n |-> n]

\* `with open(file) as file_p:` entered: the handle is open.
WithEnter(handles, h) == handles \cup {h}

\* WithExit of a function that opens the file without a with block and
\* relies on the file_p.close() after the loop.
WithExitLeavesOpen(handles, h) == handles

\* The with block left, by falling off its end, by return or by an
\* exception passing through it: the handle is closed.
WithExit(handles, h) == handles \ {h}

\* file_p.close() after the with block.
Close(handles, h) == handles \ {h}

LineLimit == IF call = SUMMARY THEN MaxSummaryLines ELSE MaxLines

\* An exception leaves the function, and create_qc_summary_line when that
\* is the caller: nothing catches it.
Raises(exc) ==
  /\ returned' = Raise(exc)
  /\ pc' = "done"
  /\ UNCHANGED summary

\* The function returns value: to the caller, or, inside
\* create_qc_summary_line, into summary.update(...) and on to the next step.
Returns(value, next_pc) ==
  IF call = SUMMARY
  THEN /\ summary' = Update(summary, value)
       /\ pc' = next_pc
       /\ UNCHANGED returned
  ELSE /\ returned' = Return(value)
       /\ pc' = "done"
       /\ UNCHANGED summary

\* -------------------------------------------------- is_variant_n / iupac
is_variant_n(variant) == SearchClass(Upper(variant), {"N", "n"})

IupacCodes == {"R", "Y", "S", "W", "K", "M", "B", "D", "H", "V"}

is_variant_iupac(variant) == SearchClass(Upper(variant), IupacCodes)

\* ----------------------------------------------------- get_total_variants
VarHeaderPattern == <<"R", "E", "G", "I", "O", "N", "\t", "P", "O", "S",
    "\t", "R", "E", "F">>

ZeroCounters ==
  [counter |-> 0, counter_n |-> 0, counter_iupac |-> 0,
   counter_snv |-> 0, counter_indel |-> 0]

\* CountRow with the `counter += 1` of the indel branch left out.
CountRowIndelUncounted(c, alt, ind) ==
  IF ind
  THEN IF Len(alt) > 1
       THEN [c EXCEPT !.counter_indel = @ + 1]
       ELSE IF Len(alt) = 1
            THEN [c EXCEPT !.counter = @ + 1, !.counter_snv = @ + 1]
            ELSE c
  ELSE IF Len(alt) = 1
       THEN [c EXCEPT !.counter = @ + 1, !.counter_snv = @ + 1]
       ELSE c

\* The indel / SNV counting of one row.
CountRow(c, alt, ind) ==
  IF ind
  THEN IF Len(alt) > 1
       THEN [c EXCEPT !.counter = @ + 1, !.counter_indel = @ + 1]
       ELSE IF Len(alt) = 1
            THEN [c EXCEPT !.counter = @ + 1, !.counter_snv = @ + 1]
            ELSE c
  ELSE IF Len(alt) = 1
       THEN [c EXCEPT !.counter = @ + 1, !.counter_snv = @ + 1]
       ELSE c

\* SkipsRow with the `else: continue` left out.
SkipsRowNever(alt, ind) == FALSE

\* The `continue` of the branch without indels.
SkipsRow(alt, ind) == ~ind /\ Len(alt) # 1

\* ClassifyRow with the two tests in the other order.
ClassifyRowIupacFirst(c, alt) ==
  IF is_variant_iupac(alt) THEN [c EXCEPT !.counter_iupac = @ + 1]
  ELSE IF is_variant_n(alt) THEN [c EXCEPT !.counter_n = @ + 1]
  ELSE c

\* The N / IUPAC counting of one row.
ClassifyRow(c, alt) ==
  IF is_variant_n(alt) THEN [c EXCEPT !.counter_n = @ + 1]
  ELSE IF is_variant_iupac(alt) THEN [c EXCEPT !.counter_iupac = @ + 1]
  ELSE c

\* The loop body over a line that is not the header and has an ALT field.
ProcessRow(c, alt, ind) ==
  IF SkipsRow(alt, ind) THEN c ELSE ClassifyRow(CountRow(c, alt, ind), alt)

VariantsResult(c) ==
  [total_variants |-> c.counter,
   total_n |-> c.counter_n,
   total_iupac |-> c.counter_iupac,
   total_snv |-> c.counter_snv,
   total_indel |-> c.counter_indel]

VarOpen ==
  /\ pc = "var_open"
  /\ open_handles' = WithEnter(open_handles, Handle("var_file", 0))
  /\ counters' = ZeroCounters
  /\ lines' = <<>>
  /\ pc' = "var_loop"
  /\ UNCHANGED <<call, indel, qc_data, depth, ct_data, summary, files_done,
                 collected, returned>>

VarLine ==
  /\ pc = "var_loop"
  /\ Len(lines) < LineLimit
  /\ \E line \in IF call = SUMMARY THEN SummaryVariantLines ELSE VariantLines :
       /\ lines' = Append(lines, line)
       /\ IF StartsWith(line, VarHeaderPattern)
          THEN UNCHANGED <<pc, open_handles, counters, returned>>
          ELSE LET data == Split(line, TAB) IN
               IF Len(data) < 4
               THEN /\ open_handles' =
                         WithExit(open_handles, Handle("var_file", 0))
                    /\ returned' = Raise("IndexError")
                    /\ pc' = "done"
                    /\ UNCHANGED counters
               ELSE /\ counters' = ProcessRow(counters, data[4], indel)
                    /\ UNCHANGED <<pc, open_handles, returned>>
  /\ UNCHANGED <<call, indel, qc_data, depth, ct_data, summary, files_done,
                 collected>>

VarReturn ==
  /\ pc = "var_loop"
  /\ open_handles' =
       Close(WithExit(open_handles, Handle("var_file", 0)),
             Handle("var_file", 0))
  /\ Returns(VariantsResult(counters), "qc_open")
  /\ UNCHANGED <<call, indel, lines, locals>>

\* ------------------------------------------------------------ get_qc_data
QcHeaderPattern == <<"s", "a", "m", "p", "l", "e", "_", "n", "a", "m", "e">>

\* QcOutcome with data initialised to seven empty fields before the loop
\* and short lines padded to seven fields.
QcOutcomePadded(data) ==
  LET padded == [i \in 1..7 |-> IF i <= Len(data) THEN data[i] ELSE <<>>]
  IN  Return([sample_name |-> padded[1],
              pct_n_bases |-> padded[2],
              pct_covered_bases |-> padded[3],
              qc_pass |-> padded[7]])

\* The return statement: data unbound when the loop never assigned it,
\* data[6] out of range when the last line read has fewer than 7 fields.
QcOutcome(data) ==
  IF data = <<>> THEN Raise("UnboundLocalError")
  ELSE IF Len(data) < 7 THEN Raise("IndexError")
  ELSE Return([sample_name |-> data[1],
               pct_n_bases |-> data[2],
               pct_covered_bases |-> data[3],
               qc_pass |-> data[7]])

QcOpen ==
  /\ pc = "qc_open"
  /\ open_handles' = WithEnter(open_handles, Handle("qc_file", 0))
  /\ qc_data' = <<>>
  /\ lines' = <<>>
  /\ pc' = "qc_loop"
  /\ UNCHANGED <<call, indel, counters, depth, ct_data, summary, files_done,
                 collected, returned>>

QcLine ==
  /\ pc = "qc_loop"
  /\ Len(lines) < LineLimit
  /\ \E line \in IF call = SUMMARY THEN SummaryQcLines ELSE QcLines :
       /\ lines' = Append(lines, line)
       /\ qc_data' = IF StartsWith(line, QcHeaderPattern)
                     THEN qc_data
                     ELSE Split(Strip(line), COMMA)
  /\ UNCHANGED <<call, indel, pc, open_handles, counters, depth, ct_data,
                 summary, files_done, collected, returned>>

QcReturn ==
  /\ pc = "qc_loop"
  /\ open_handles' =
       Close(WithExit(open_handles, Handle("qc_file", 0)),
             Handle("qc_file", 0))
  /\ IF QcOutcome(qc_data).kind = "raise"
     THEN Raises(QcOutcome(qc_data).exc)
     ELSE Returns(QcOutcome(qc_data).value, "cov_open")
  /\ UNCHANGED <<call, indel, lines, locals>>

\* ----------------------------------------------------- get_coverage_stats
CovHeaderPattern == <<"r", "e", "f", "e", "r", "e", "n", "c", "e", "_", "n",
    "a", "m", "e", "\t", "s", "t", "a", "r", "t", "\t", "e", "n", "d">>

RECURSIVE Gcd(_, _)
Gcd(a, b) == IF b = 0 THEN a ELSE Gcd(b, a % b)

Abs(n) == IF n < 0 THEN 0 - n ELSE n

\* The number num / den, in lowest terms.
Fraction(num, den) ==
  [num |-> num \div Gcd(Abs(num), den), den |-> den \div Gcd(Abs(num), den)]

RECURSIVE Sum(_)
Sum(s) == IF s = <<>> THEN 0 ELSE s[1] + Sum(Tail(s))

RECURSIVE Insert(_, _)
Insert(x, s) ==
  IF s = <<>> THEN <<x>>
  ELSE IF x <= s[1] THEN <<x>> \o s
  ELSE <<s[1]>> \o Insert(x, Tail(s))

\* sorted(s)
RECURSIVE Sorted(_)
Sorted(s) == IF s = <<>> THEN <<>> ELSE Insert(s[1], Sorted(Tail(s)))

\* statistics.mean and statistics.median of a list that is not empty.
mean(d) == Fraction(Sum(d), Len(d))

median(d) ==
  IF Len(d) % 2 = 1
  THEN Fraction(Sorted(d)[Len(d) \div 2 + 1], 1)
  ELSE Fraction(Sorted(d)[Len(d) \div 2] + Sorted(d)[Len(d) \div 2 + 1], 2)

\* CoverageOutcome with a guard that gives 0 for an empty list.
CoverageOutcomeZero(d) ==
  IF d = <<>> THEN Return([mean |-> Fraction(0, 1), median |-> Fraction(0, 1)])
  ELSE Return([mean |-> mean(d), median |-> median(d)])

\* The statements after the loop: statistics.mean raises StatisticsError
\* on an empty list.
CoverageOutcome(d) ==
  IF d = <<>> THEN Raise("StatisticsError")
  ELSE Return([mean |-> mean(d), median |-> median(d)])

CovOpen ==
  /\ pc = "cov_open"
  /\ open_handles' = WithEnter(open_handles, Handle("cov_file", 0))
  /\ depth' = <<>>
  /\ lines' = <<>>
  /\ pc' = "cov_loop"
  /\ UNCHANGED <<call, indel, counters, qc_data, ct_data, summary, files_done,
                 collected, returned>>

CovLine ==
  /\ pc = "cov_loop"
  /\ Len(lines) < LineLimit
  /\ \E line \in IF call = SUMMARY THEN SummaryCoverageLines ELSE CoverageLines :
       /\ lines' = Append(lines, line)
       /\ IF StartsWith(line, CovHeaderPattern)
          THEN UNCHANGED <<pc, open_handles, depth, returned>>
          ELSE LET data == Split(Strip(line), TAB) IN
               IF Len(data) < 8 \/ ~IsInt(data[8])
               THEN /\ open_handles' =
                         WithExit(open_handles, Handle("cov_file", 0))
                    /\ returned' =
                         Raise(IF Len(data) < 8 THEN "IndexError"
                                                ELSE "ValueError")
                    /\ pc' = "done"
                    /\ UNCHANGED depth
               ELSE /\ depth' = Append(depth, IntOf(data[8]))
                    /\ UNCHANGED <<pc, open_handles, returned>>
  /\ UNCHANGED <<call, indel, counters, qc_data, ct_data, summary, files_done,
                 collected>>

CovReturn ==
  /\ pc = "cov_loop"
  /\ open_handles' =
       Close(WithExit(open_handles, Handle("cov_file", 0)),
             Handle("cov_file", 0))
  /\ IF CoverageOutcome(depth).kind = "raise"
     THEN Raises(CoverageOutcome(depth).exc)
     ELSE Returns(CoverageOutcome(depth).value, "meta_open")
  /\ UNCHANGED <<call, indel, lines, locals>>

\* --------------------------------------------------------- import_ct_data
MetaHeaderPattern == <<"s", "a", "m", "p", "l", "e", "\t", "c", "t">>

\* StoreCt that keeps the first ct of a sample (data.setdefault).
StoreCtFirstWins(data, tmp_data) ==
  IF tmp_data[1] \in DOMAIN data THEN data
  ELSE SetItem(data, tmp_data[1], tmp_data[2])

\* data[tmp_data[0]] = tmp_data[1]
StoreCt(data, tmp_data) == SetItem(data, tmp_data[1], tmp_data[2])

MetaOpen ==
  /\ pc = "meta_open"
  /\ open_handles' = WithEnter(open_handles, Handle("meta_file", 0))
  /\ ct_data' = EmptyDict
  /\ lines' = <<>>
  /\ pc' = "meta_loop"
  /\ UNCHANGED <<call, indel, counters, qc_data, depth, summary, files_done,
                 collected, returned>>

MetaLine ==
  /\ pc = "meta_loop"
  /\ Len(lines) < LineLimit
  /\ \E line \in IF call = SUMMARY THEN SummaryMetaLines ELSE MetaLines :
       /\ lines' = Append(lines, line)
       /\ IF StartsWith(Lower(line), MetaHeaderPattern)
          THEN UNCHANGED <<pc, open_handles, ct_data, returned>>
          ELSE LET tmp_data == Split(Strip(line), TAB) IN
               IF Len(tmp_data) < 2
               THEN /\ open_handles' =
                         WithExit(open_handles, Handle("meta_file", 0))
                    /\ returned' = Raise("IndexError")
                    /\ pc' = "done"
                    /\ UNCHANGED ct_data
               ELSE /\ ct_data' = StoreCt(ct_data, tmp_data)
                    /\ UNCHANGED <<pc, open_handles, returned>>
  /\ UNCHANGED <<call, indel, counters, qc_data, depth, summary, files_done,
                 collected>>

\* file_p.close() and the return are inside the with block here.
MetaReturn ==
  /\ pc = "meta_loop"
  /\ open_handles' =
       WithExit(Close(open_handles, Handle("meta_file", 0)),
                Handle("meta_file", 0))
  /\ IF call = SUMMARY
     THEN pc' = "lookup" /\ UNCHANGED returned
     ELSE pc' = "done" /\ returned' = Return(ct_data)
  /\ UNCHANGED <<call, indel, lines, locals, summary>>

\* ------------------------------------------------- create_qc_summary_line
SummaryKeys ==
  {"total_variants", "total_n", "total_iupac", "total_snv", "total_indel",
   "sample_name", "pct_n_bases", "pct_covered_bases", "qc_pass",
   "mean", "median", "ct"}

\* LookupOutcome with meta_data.get(...): no ct for an unknown sample.
LookupOutcomeLenient(s, meta_data) ==
  IF s["sample_name"] \in DOMAIN meta_data
  THEN Return(SetItem(s, "ct", meta_data[s["sample_name"]]))
  ELSE Return(s)

\* summary['ct'] = meta_data[summary['sample_name']]; return summary
LookupOutcome(s, meta_data) ==
  IF s["sample_name"] \in DOMAIN meta_data
  THEN Return(SetItem(s, "ct", meta_data[s["sample_name"]]))
  ELSE Raise("KeyError")

SummaryLookup ==
  /\ pc = "lookup"
  /\ returned' = LookupOutcome(summary, ct_data)
  /\ summary' = IF returned'.kind = "return" THEN returned'.value ELSE summary
  /\ pc' = "done"
  /\ UNCHANGED <<call, indel, lines, open_handles, locals>>

\* ------------------------------------------------ collect_qc_summary_data
SummaryHeaderPattern == <<"s", "a", "m", "p", "l", "e", "_", "n", "a", "m",
    "e", "\t", "p", "c", "t", "_", "n", "_", "b", "a", "s", "e", "s", "\t",
    "p", "c", "t", "_", "c", "o", "v", "e", "r", "e", "d", "_", "b", "a",
    "s", "e", "s">>

RECURSIVE TotalLines(_)
TotalLines(files) ==
  IF files = <<>> THEN 0 ELSE Len(files[1]) + TotalLines(Tail(files))

\* CollectLineInto that drops a line already collected.
CollectLineIntoDedup(data, line) ==
  IF StartsWith(line, SummaryHeaderPattern) THEN data
  ELSE IF \E i \in 1..Len(data) : data[i] = RStrip(line) THEN data
  ELSE Append(data, RStrip(line))

\* The loop body: the header is skipped, any other line is appended
\* without its trailing whitespace.
CollectLineInto(data, line) ==
  IF StartsWith(line, SummaryHeaderPattern)
  THEN data
  ELSE Append(data, RStrip(line))

CollectOpen ==
  /\ pc = "collect_next"
  /\ Len(files_done) < MaxFiles
  /\ open_handles' =
       WithEnter(open_handles, Handle("summary_file", Len(files_done) + 1))
  /\ lines' = <<>>
  /\ pc' = "collect_loop"
  /\ UNCHANGED <<call, indel, counters, qc_data, depth, ct_data, summary,
                 files_done, collected, returned>>

CollectLine ==
  /\ pc = "collect_loop"
  /\ TotalLines(files_done) + Len(lines) < MaxCollectLines
  /\ \E line \in SummaryFileLines :
       /\ lines' = Append(lines, line)
       /\ collected' = CollectLineInto(collected, line)
  /\ UNCHANGED <<call, indel, pc, open_handles, counters, qc_data, depth,
                 ct_data, summary, files_done, returned>>

CollectClose ==
  /\ pc = "collect_loop"
  /\ open_handles' =
       WithExit(open_handles, Handle("summary_file", Len(files_done) + 1))
  /\ files_done' = Append(files_done, lines)
  /\ lines' = <<>>
  /\ pc' = "collect_next"
  /\ UNCHANGED <<call, indel, counters, qc_data, depth, ct_data, summary,
                 collected, returned>>

CollectReturn ==
  /\ pc = "collect_next"
  /\ returned' = Return(collected)
  /\ pc' = "done"
  /\ UNCHANGED <<call, indel, lines, open_handles, locals, summary>>

\* --------------------------------------------------------- specifications
FirstStep ==
  [get_total_variants |-> "var_open",
   get_qc_data |-> "qc_open",
   get_coverage_stats |-> "cov_open",
   import_ct_data |-> "meta_open",
   create_qc_summary_line |-> "var_open",
   collect_qc_summary_data |-> "collect_next"]

\* The state as `fn` is called.  indel is an argument of get_total_variants
\* and of create_qc_summary_line only.
InitCall(fn) ==
  /\ call = fn
  /\ indel \in (IF fn \in {"get_total_variants", SUMMARY}
                THEN BOOLEAN ELSE {FALSE})
  /\ pc = FirstStep[fn]
  /\ lines = <<>>
  /\ open_handles = {}
  /\ counters = ZeroCounters
  /\ qc_data = <<>>
  /\ depth = <<>>
  /\ ct_data = EmptyDict
  /\ summary = EmptyDict
  /\ files_done = <<>>
  /\ collected = <<>>
  /\ returned = NotReturned

NextVariants == VarOpen \/ VarLine \/ VarReturn

NextQc == QcOpen \/ QcLine \/ QcReturn

NextCoverage == CovOpen \/ CovLine \/ CovReturn

NextMeta == MetaOpen \/ MetaLine \/ MetaReturn

NextCollect == CollectOpen \/ CollectLine \/ CollectClose \/ CollectReturn

NextSummary ==
  NextVariants \/ NextQc \/ NextCoverage \/ NextMeta \/ SummaryLookup

Init == \E fn \in DOMAIN FirstStep : InitCall(fn)

Next == NextSummary \/ NextCollect

Spec == Init /\ [][Next]_vars

SpecVariants == InitCall("get_total_variants") /\ [][NextVariants]_vars

SpecQc == InitCall("get_qc_data") /\ [][NextQc]_vars

SpecCoverage == InitCall("get_coverage_stats") /\ [][NextCoverage]_vars

SpecMeta == InitCall("import_ct_data") /\ [][NextMeta]_vars

SpecSummary == InitCall(SUMMARY) /\ [][NextSummary]_vars

SpecCollect == InitCall("collect_qc_summary_data") /\ [][NextCollect]_vars


\* ----------------------------------------------------------------- claims
Range(s) == {s[i] : i \in 1..Len(s)}

Last(s) == s[Len(s)]

Count(s, Test(_)) == Cardinality({i \in 1..Len(s) : Test(s[i])})

\* The ALT field of a row of the variants table, as the loop body reads it.
AltOf(line) == Split(line, TAB)[4]

IsVariantRow(line) == ~StartsWith(line, VarHeaderPattern)

\* C1: with indel=True, after any prefix of the lines and in the returned
\* dictionary, total_variants = total_snv + total_indel, whatever the ALT
\* values are (empty and multi-character ones included).
C1_TotalIsSnvPlusIndel ==
  indel =>
    /\ counters.counter = counters.counter_snv + counters.counter_indel
    /\ returned.kind = "return" =>
         returned.value.total_variants =
           returned.value.total_snv + returned.value.total_indel

C1_Witness ==
  /\ indel
  /\ returned.kind = "return"
  /\ VarRow(<<>>) \in Range(lines)
  /\ returned.value.total_snv >= 1
  /\ returned.value.total_indel >= 1

\* C2: with indel=False, total_indel stays 0 and total_variants = total_snv
\* at every step, and a row whose ALT is longer than one character changes
\* none of the five counters, also when that ALT holds N or an IUPAC code.
C2_NoIndelsCounted ==
  /\ [](~indel => /\ counters.counter_indel = 0
                  /\ counters.counter = counters.counter_snv)
  /\ [][(/\ ~indel
         /\ pc = "var_loop"
         /\ Len(lines') = Len(lines) + 1
         /\ IsVariantRow(Last(lines'))
         /\ Len(Split(Last(lines'), TAB)) >= 4
         /\ Len(AltOf(Last(lines'))) > 1)
        => counters' = counters]_vars

C2_Witness ==
  /\ ~indel
  /\ returned.kind = "return"
  /\ VarRow(<<"R", "n">>) \in Range(lines)
  /\ VarRow(<<"A">>) \in Range(lines)
  /\ returned.value.total_n = 0
  /\ returned.value.total_variants = 1

\* C3: with indel=True every line other than the header is counted:
\* total_variants is the number of non-header lines, total_indel the number
\* of those with a multi-character ALT and total_snv the number of those
\* with a single-character ALT.
C3_EveryRowCounted ==
  (indel /\ returned.kind # "raise") =>
    /\ counters.counter = Count(lines, IsVariantRow)
    /\ counters.counter_indel =
         Count(lines, LAMBDA l : IsVariantRow(l) /\ Len(AltOf(l)) > 1)
    /\ counters.counter_snv =
         Count(lines, LAMBDA l : IsVariantRow(l) /\ Len(AltOf(l)) = 1)

\* Whether an ALT holds N, or an IUPAC ambiguity code, in either case.
HoldsN(alt) == \E i \in 1..Len(alt) : alt[i] \in {"N", "n"}

HoldsIupac(alt) ==
  \E i \in 1..Len(alt) :
    alt[i] \in {"R", "Y", "S", "W", "K", "M", "B", "D", "H", "V",
                "r", "y", "s", "w", "k", "m", "b", "d", "h", "v"}

\* C4: for every row that is counted, total_n goes up by one when the ALT
\* holds N in either case, otherwise total_iupac goes up by one when the ALT
\* holds one of R,Y,S,W,K,M,B,D,H,V in either case, otherwise neither
\* changes; no row raises both.
C4_NThenIupac ==
  [][(pc = "var_loop" /\ counters'.counter = counters.counter + 1) =>
       LET alt == AltOf(Last(lines'))
           dn == counters'.counter_n - counters.counter_n
           di == counters'.counter_iupac - counters.counter_iupac
       IN  IF HoldsN(alt) THEN dn = 1 /\ di = 0
           ELSE IF HoldsIupac(alt) THEN dn = 0 /\ di = 1
           ELSE dn = 0 /\ di = 0]_vars

C4_Witness ==
  /\ lines = << VarRow(<<"R", "n">>), VarRow(<<"r">>), VarRow(<<"A">>) >>
  /\ counters.counter = 3
  /\ counters.counter_n = 1
  /\ counters.counter_iupac = 1

\* C5: create_qc_summary_line returns a record with every key, ct being
\* the metadata table's entry for the record's sample_name, or raises and
\* returns nothing; when the sample_name is no key of the metadata table
\* the lookup raises KeyError.
C5_CompleteRecordOrError ==
  /\ [](/\ pc = "done" => returned.kind \in {"return", "raise"}
        /\ returned.kind = "return" =>
             /\ DOMAIN returned.value = SummaryKeys
             /\ returned.value["sample_name"] \in DOMAIN ct_data
             /\ returned.value["ct"] = ct_data[returned.value["sample_name"]]
        /\ returned.kind = "raise" => DOMAIN returned = {"kind", "exc"})
  /\ [][(pc = "lookup" /\ summary["sample_name"] \notin DOMAIN ct_data)
        => returned' = Raise("KeyError")]_vars

C5_Witness ==
  /\ call = SUMMARY
  /\ returned = Raise("KeyError")
  /\ DOMAIN summary = SummaryKeys \ {"ct"}
  /\ summary["sample_name"] = <<"S", "2">>
  /\ DOMAIN ct_data = {<<"S", "1">>, <<"S", "3">>}

\* C6: get_coverage_stats on a table without data rows (no line at all, or
\* header lines only) ends with an exception; it returns no dictionary.
C6_NoRowsIsAnError ==
  (/\ call = "get_coverage_stats"
   /\ pc = "done"
   /\ \A i \in 1..Len(lines) : StartsWith(lines[i], CovHeaderPattern))
  => returned.kind = "raise"

C6_Witness ==
  /\ call = "get_coverage_stats"
  /\ lines = <<CovHeader>>
  /\ returned = Raise("StatisticsError")

\* All the lines read by collect_qc_summary_data, in the order read.
RECURSIVE Flatten(_)
Flatten(files) ==
  IF files = <<>> THEN <<>> ELSE files[1] \o Flatten(Tail(files))

RStripAll(s) == [i \in 1..Len(s) |-> RStrip(s[i])]

AllLines == Flatten(Append(files_done, lines))

\* C7 as stated: the files in enumeration order and, within each, every
\* line in file order except the lines that are the summary header.
C7_ExactHeaderDropped ==
  collected = RStripAll(SelectSeq(AllLines, LAMBDA l : l # SummaryHeader))

\* C7 as amended: the files in enumeration order and, within each, every
\* line in file order, without its trailing whitespace, except the lines
\* that begin with the header's first three column names; nothing else is
\* dropped, deduplicated or reordered.
C7_HeaderPrefixDropped ==
  /\ collected =
       RStripAll(SelectSeq(AllLines,
                           LAMBDA l : ~StartsWith(l, SummaryHeaderPattern)))
  /\ returned.kind = "return" => returned.value = collected

C7_Witness ==
  /\ returned.kind = "return"
  /\ files_done = << <<SummaryHeader, SummaryRowS1, SummaryRowS2>>,
                     <<SummaryHeader, SummaryRowS2, SummaryRowS1>> >>
  /\ returned.value = << RStrip(SummaryRowS1), RStrip(SummaryRowS2),
                         RStrip(SummaryRowS2), RStrip(SummaryRowS1) >>
  /\ Len(returned.value) = 4

\* The lines of the QC file that are not its header, and the number of
\* fields of a line.
QcDataLines == SelectSeq(lines, LAMBDA l : ~StartsWith(l, QcHeaderPattern))

NumFields(line, sep) ==
  Cardinality({i \in 1..Len(Strip(line)) : Strip(line)[i] = sep}) + 1

\* C8: get_qc_data raises when the file has no data line or when its
\* (last) data line has fewer than 7 comma-separated fields; when it
\* returns, the four values are fields 0, 1, 2 and 6 of that line.
C8_QcErrorsAndFields ==
  (call = "get_qc_data" /\ pc = "done") =>
    /\ (QcDataLines = <<>> \/ NumFields(Last(QcDataLines), COMMA) < 7)
         => returned.kind = "raise"
    /\ returned.kind = "return" =>
         /\ QcDataLines # <<>>
         /\ LET f == Split(Strip(Last(QcDataLines)), COMMA)
            IN  /\ returned.value.sample_name = f[1]
                /\ returned.value.pct_n_bases = f[2]
                /\ returned.value.pct_covered_bases = f[3]
                /\ returned.value.qc_pass = f[7]

C8_Witness ==
  /\ call = "get_qc_data"
  /\ lines = <<QcHeader>>
  /\ returned = Raise("UnboundLocalError")

\* The lines of the metadata table that are not its header, a column of a
\* line, and the last line of a sample.
MetaRows ==
  SelectSeq(lines, LAMBDA l : ~StartsWith(Lower(l), MetaHeaderPattern))

Column(line, n) == Split(Strip(line), TAB)[n]

LastRowOf(key) ==
  CHOOSE i \in 1..Len(MetaRows) :
    /\ Column(MetaRows[i], 1) = key
    /\ \A j \in (i + 1)..Len(MetaRows) : Column(MetaRows[j], 1) # key

\* C9: import_ct_data maps every column-0 value of a non-header line to
\* the column-1 value of the last non-header line with that column-0
\* value; duplicates raise nothing; a line that matches sample<TAB>ct in
\* any letter case adds no entry.
C9_LastCtWins ==
  (call = "import_ct_data" /\ pc = "done") =>
    /\ (\A i \in 1..Len(MetaRows) : NumFields(MetaRows[i], TAB) >= 2)
         => returned.kind = "return"
    /\ returned.kind = "return" =>
         /\ DOMAIN returned.value =
              {Column(MetaRows[i], 1) : i \in 1..Len(MetaRows)}
         /\ \A key \in DOMAIN returned.value :
              returned.value[key] = Column(MetaRows[LastRowOf(key)], 2)

C9_Witness ==
  /\ returned.kind = "return"
  /\ lines = <<MetaHeaderUpper, MetaRow(<<"S", "1">>, <<"2", "0">>),
      MetaRow(<<"S", "2">>, <<"2", "5">>),
               MetaRow(<<"S", "1">>, <<"3", "0">>)>>
  /\ DOMAIN returned.value = {<<"S", "1">>, <<"S", "2">>}
  /\ returned.value[<<"S", "1">>] = <<"3", "0">>

\* The handle that is open at each position of a loop over a file.
HandleAt ==
  [var_loop |-> {Handle("var_file", 0)},
   qc_loop |-> {Handle("qc_file", 0)},
   cov_loop |-> {Handle("cov_file", 0)},
   meta_loop |-> {Handle("meta_file", 0)},
   collect_loop |-> {Handle("summary_file", Len(files_done) + 1)}]

\* C10: every file handle a function opens is closed when the function
\* returns or raises, a malformed row partway through the file included;
\* in create_qc_summary_line no handle of an earlier step is open when a
\* later step starts or when the assembly ends.
C10_HandlesClosed ==
  IF pc \in DOMAIN HandleAt
  THEN open_handles = HandleAt[pc]
  ELSE open_handles = {}

C10_Witness ==
  /\ call = SUMMARY
  /\ returned = Raise("ValueError")
  /\ lines = <<CovRow(<<"1">>), CovRow(<<"x">>)>>
  /\ open_handles = {}

=============================================================================
